---- MODULE Spec2Model ----
(***************************************************************************)
(* Model of the video enrichment pipeline of backend/app:                  *)
(*   processing_queue_service.py  ProcessingQueueWorker (job queue, the    *)
(*                                polling loop, the per-job task, the      *)
(*                                failure handler, the queue helpers)      *)
(*   queue.py / worker.py         the ARQ hand-off and the quiz task       *)
(*   database.py                  the unique index on processing_queue     *)
(*   services/embedding_service.py  find_most_similar, chunk_text          *)
(*   services/vector_service.py   semantic_search                          *)
(* Every await of the code is a step boundary: one action is the code that *)
(* runs between two awaits together with the store operation it issues.    *)
(***************************************************************************)
EXTENDS Integers, Sequences, FiniteSets, TLC

\* ------------------------------------------------------------------ bounds
NumVideos == 2        \* video ids 1..NumVideos that requests may name
NumLoops == 2         \* start_worker() tasks (lifespan + playlist imports)
NumCallers == 2       \* concurrent add_to_queue requests
MaxPriority == 0      \* priorities 0..MaxPriority of the requests of Spec
MaxAnyPriority == 1   \* priorities 0..MaxAnyPriority in SpecClaim, SpecEnqueue
MaxTime == 1          \* the clock runs 0..MaxTime
MaxJobs == 2          \* documents ever inserted into processing_queue
MaxDays == 1          \* older_than_days ranges over 0..MaxDays
NumClaimJobs == 5     \* jobs in the store of the claim-only specification
MaxCandidates == 3    \* candidates handed to find_most_similar
MaxScore == 2         \* cosine similarities are 0..MaxScore
MaxTopK == 3          \* top_k ranges over 0..MaxTopK
MaxChunks == 4        \* documents of db.video_chunks
MaxLimit == 2         \* the limit of semantic_search ranges over 1..MaxLimit
MaxTextLen == 4       \* characters of a text given to chunk_text
MaxChunkSize == 3     \* chunk_size_chars ranges over 1..MaxChunkSize
MaxIterations == 5    \* passes of the while loop of chunk_text that are followed
MaxPools == 3         \* Redis pools that create_pool ever returns

\* ------------------------------------------------------- program constants
\* ProcessingQueueWorker(max_concurrent): the constructor's parameter, the
\* number of permits of the semaphore and the limit of one claim; the module's
\* instance passes 3, the model keeps it a parameter and checks with 2
max_concurrent == 2
max_retries == 3      \* self.max_retries

VideoIds == 1..NumVideos
Loops == 1..NumLoops
Callers == 1..NumCallers
Priorities == 0..MaxPriority
AnyPriority == 0..MaxAnyPriority
Texts == {"ta"}             \* non-empty transcripts the provider returns
Imported == 1..(NumVideos - 1)    \* the ids that name a document of db.videos
NoVideo == [absent |-> TRUE]
NoEmbedding == <<>>

\* embedding_service.generate_embedding on success: the bytes of the text
Embed(text) == <<"emb", text>>

VARIABLES
    queue,        \* db.processing_queue: a set of job documents
    videos,       \* db.videos: video id -> document or NoVideo
    now,          \* datetime.now(timezone.utc)
    next_id,      \* the next ObjectId of processing_queue
    is_running,   \* ProcessingQueueWorker.is_running
    semaphore,    \* free permits of ProcessingQueueWorker._semaphore
    loops,        \* the start_worker() tasks
    tasks,        \* the _process_with_semaphore() tasks in flight
    calls,        \* the add_to_queue() requests
    arq,          \* quiz jobs enqueued in ARQ and not yet run
    quizzes,      \* db.quizzes: the video ids that have a quiz document
    modified_count,  \* what the last retry_failed_jobs call returned
    frame         \* the arguments, locals and result of the embedding or
                  \* search call under evaluation

vars == <<queue, videos, now, next_id, is_running, semaphore, loops, tasks,
          calls, arq, quizzes, modified_count, frame>>

\* no embedding or search call is being evaluated
NoFrame == [op |-> "none"]

\* ------------------------------------------------------------ documents
\* add_to_queue: the job document it builds
NewJob(id, v, p, t) ==
    [_id |-> id, video_id |-> v, status |-> "pending", priority |-> p,
     retry_count |-> 0, error_message |-> "", created_at |-> t,
     updated_at |-> t]

\* playlist_service.import_playlist: a video as the import stores it
NewVideo == [transcript |-> "", embedding |-> NoEmbedding,
             processing_status |-> "pending"]

\* no unique index: insert_one accepts any document
DuplicateKeyNoIndex(q, doc) == FALSE

\* the unique index on processing_queue.video_id rejects a second document
DuplicateKey(q, doc) == \E j \in q : j.video_id = doc.video_id

\* ------------------------------------------------------------ the claim
\* a filter that also matches the jobs already taken
ClaimableAlsoProcessing(j) == j.status \in {"pending", "processing"}

\* a filter that also matches the jobs that failed for good
ClaimableAlsoFailed(j) == j.status \in {"pending", "failed"}

\* the filter {"status": "pending"} of find_one_and_update
Claimable(j) == j.status = "pending"

\* the sort with priority ascending
SortsBeforeAscending(a, b) ==
    \/ a.priority < b.priority
    \/ a.priority = b.priority /\ a.created_at < b.created_at

\* sort=[("priority", -1), ("created_at", 1)]: a comes strictly before b
SortsBefore(a, b) ==
    \/ a.priority > b.priority
    \/ a.priority = b.priority /\ a.created_at < b.created_at

\* the documents find_one_and_update may pick: first in sort order among the
\* matching ones (the store breaks ties of the sort key as it likes)
FindOneCandidates(q) ==
    {j \in q : Claimable(j)
               /\ \A k \in q : Claimable(k) => ~SortsBefore(k, j)}

\* "$set": {"status": "processing", "updated_at": now}, return_document=True
ClaimedDoc(j) == [j EXCEPT !.status = "processing", !.updated_at = now]

\* _process_batch: asyncio.create_task(_process_with_semaphore(job))
NewTask(l, job) ==
    [loop |-> l, job |-> job, pc |-> "wait", transcript |-> "",
     embedding |-> NoEmbedding, error |-> ""]

SeqRange(s) == {s[i] : i \in 1..Len(s)}

\* _process_batch after _claim_pending_jobs returned: nothing claimed means
\* return (and sleep), otherwise one task per job and gather
Dispatch(l, claimed) ==
    IF claimed = <<>>
    THEN /\ loops' = [loops EXCEPT ![l] = [pc |-> "sleep", claimed |-> <<>>]]
         /\ tasks' = tasks
    ELSE /\ loops' = [loops EXCEPT ![l] = [pc |-> "gather", claimed |-> <<>>]]
         /\ tasks' = tasks \cup {NewTask(l, j) : j \in SeqRange(claimed)}

\* one iteration of the loop of _claim_pending_jobs(max_concurrent), and what
\* follows it without an await when it is the last one
ClaimStep(l) ==
    /\ loops[l].pc = "claim"
    /\ IF FindOneCandidates(queue) = {}
       THEN /\ Dispatch(l, loops[l].claimed)
            /\ queue' = queue
       ELSE \E j \in FindOneCandidates(queue) :
               LET claimed == Append(loops[l].claimed, ClaimedDoc(j)) IN
               /\ queue' = (queue \ {j}) \cup {ClaimedDoc(j)}
               /\ IF Len(claimed) = max_concurrent
                  THEN Dispatch(l, claimed)
                  ELSE /\ loops' = [loops EXCEPT ![l].claimed = claimed]
                       /\ tasks' = tasks
    /\ UNCHANGED <<videos, now, next_id, is_running, semaphore, calls, arq, quizzes,
                   modified_count, frame>>

\* ------------------------------------------------------------ the job task
Replace(t, t2) == tasks' = (tasks \ {t}) \cup {t2}

\* a task that ends without giving its permit back
FinishKeepingPermit(t) ==
    /\ tasks' = tasks \ {t}
    /\ semaphore' = semaphore

\* the end of _process_with_semaphore: the task is over, the permit returns
Finish(t) ==
    /\ tasks' = tasks \ {t}
    /\ semaphore' = semaphore + 1

\* the comparison off by one
ExhaustedAfterOneMore(retry_count) == retry_count > max_retries

\* retry_count >= self.max_retries
Exhausted(retry_count) == retry_count >= max_retries

\* a handler that gives up at once, whatever the retry count
HandleJobFailurePermanent(t, msg) == [t EXCEPT !.error = msg, !.pc = "fail_job"]

\* except Exception as e: _handle_job_failure(job, str(e)) up to its first
\* await: retry_count = job.get("retry_count", 0) + 1 and the branch taken
HandleJobFailure(t, msg) ==
    [t EXCEPT !.error = msg,
              !.pc = IF Exhausted(t.job.retry_count + 1)
                     THEN "fail_job" ELSE "backoff"]

\* a terminal failure that leaves the stored retry count as it was
FailedDocUncounted(j, msg, retry_count) ==
    [j EXCEPT !.status = "failed", !.error_message = msg, !.updated_at = now]

\* "$set" of the exhausted branch of _handle_job_failure
FailedDoc(j, msg, retry_count) ==
    [j EXCEPT !.status = "failed", !.error_message = msg,
              !.retry_count = retry_count, !.updated_at = now]

\* "$set" of the retry branch of _handle_job_failure
RequeuedDoc(j, msg, retry_count) ==
    [j EXCEPT !.status = "pending", !.error_message = msg,
              !.retry_count = retry_count, !.updated_at = now]

\* a completion that also clears the retry bookkeeping
CompletedDocCleared(j) ==
    [j EXCEPT !.status = "completed", !.retry_count = 0, !.error_message = "",
              !.updated_at = now]

\* "$set" of "Mark job as completed"
CompletedDoc(j) == [j EXCEPT !.status = "completed", !.updated_at = now]

\* "$set" of "Update video with transcript and embedding"
ProcessedVideo(v, transcript, embedding) ==
    [v EXCEPT !.transcript = transcript, !.embedding = embedding,
              !.processing_status = "completed"]

\* {"$set": {"processing_status": "failed"}}
FailedVideo(v) == [v EXCEPT !.processing_status = "failed"]

\* a task that enters without waiting for a permit
AcquireWithoutWaiting(t) ==
    /\ t.pc = "wait"
    /\ semaphore' = semaphore - 1
    /\ Replace(t, [t EXCEPT !.pc = "find_video"])
    /\ UNCHANGED <<queue, videos, now, next_id, is_running, loops, calls, arq, quizzes,
                   modified_count, frame>>

\* async with self._semaphore
Acquire(t) ==
    /\ t.pc = "wait"
    /\ semaphore > 0
    /\ semaphore' = semaphore - 1
    /\ Replace(t, [t EXCEPT !.pc = "find_video"])
    /\ UNCHANGED <<queue, videos, now, next_id, is_running, loops, calls, arq, quizzes,
                   modified_count, frame>>

\* Step 1: db.videos.find_one({"id": video_id}); not found raises
FindVideo(t) ==
    /\ t.pc = "find_video"
    /\ Replace(t, IF videos[t.job.video_id] = NoVideo
                  THEN HandleJobFailure(t, "video not found")
                  ELSE [t EXCEPT !.pc = "fetch"])
    /\ UNCHANGED <<queue, videos, now, next_id, is_running, semaphore, loops,
                   calls, arq, quizzes, modified_count, frame>>

\* Step 2: get_transcript_with_rate_limit returns a text or ""; "" raises
FetchTranscript(t) ==
    /\ t.pc = "fetch"
    /\ \E r \in Texts \cup {""} :
          Replace(t, IF r = ""
                     THEN HandleJobFailure(t, "failed to fetch transcript")
                     ELSE [t EXCEPT !.pc = "embed", !.transcript = r])
    /\ UNCHANGED <<queue, videos, now, next_id, is_running, semaphore, loops,
                   calls, arq, quizzes, modified_count, frame>>

\* Step 3: generate_embedding returns the bytes or None; None raises
GenerateEmbedding(t) ==
    /\ t.pc = "embed"
    /\ \E ok \in BOOLEAN :
          Replace(t, IF ok
                     THEN [t EXCEPT !.pc = "handoff",
                                    !.embedding = Embed(t.transcript)]
                     ELSE HandleJobFailure(t, "failed to generate embedding"))
    /\ UNCHANGED <<queue, videos, now, next_id, is_running, semaphore, loops,
                   calls, arq, quizzes, modified_count, frame>>

\* Step 4: await enqueue_quiz_job(video_id); an unreachable Redis raises
EnqueueQuizJob(t) ==
    /\ t.pc = "handoff"
    /\ \E ok \in BOOLEAN :
          IF ok
          THEN /\ arq' = arq \cup {t.job.video_id}
               /\ Replace(t, [t EXCEPT !.pc = "write_video"])
          ELSE /\ arq' = arq
               /\ Replace(t, HandleJobFailure(t, "redis unavailable"))
    /\ UNCHANGED <<queue, videos, now, next_id, is_running, semaphore, loops,
                   calls, quizzes, modified_count, frame>>

\* Step 5: db.videos.update_one with transcript, embedding, "completed"
WriteVideo(t) ==
    /\ t.pc = "write_video"
    /\ videos' = [v \in VideoIds |->
                    IF v = t.job.video_id /\ videos[v] # NoVideo
                    THEN ProcessedVideo(videos[v], t.transcript, t.embedding)
                    ELSE videos[v]]
    /\ Replace(t, [t EXCEPT !.pc = "mark_completed"])
    /\ UNCHANGED <<queue, now, next_id, is_running, semaphore, loops, calls,
                   arq, quizzes, modified_count, frame>>

\* "Mark job as completed", then the task ends
MarkCompleted(t) ==
    /\ t.pc = "mark_completed"
    /\ queue' = {IF j._id = t.job._id THEN CompletedDoc(j) ELSE j : j \in queue}
    /\ Finish(t)
    /\ UNCHANGED <<videos, now, next_id, is_running, loops, calls, arq, quizzes,
                   modified_count, frame>>

\* _handle_job_failure, retries exhausted: the job document
MarkFailed(t) ==
    /\ t.pc = "fail_job"
    /\ queue' = {IF j._id = t.job._id
                  THEN FailedDoc(j, t.error, t.job.retry_count + 1)
                  ELSE j : j \in queue}
    /\ Replace(t, [t EXCEPT !.pc = "fail_video"])
    /\ UNCHANGED <<videos, now, next_id, is_running, semaphore, loops, calls,
                   arq, quizzes, modified_count, frame>>

\* _handle_job_failure, retries exhausted: the video document, then the end
MarkVideoFailed(t) ==
    /\ t.pc = "fail_video"
    /\ videos' = [v \in VideoIds |->
                    IF v = t.job.video_id /\ videos[v] # NoVideo
                    THEN FailedVideo(videos[v]) ELSE videos[v]]
    /\ Finish(t)
    /\ UNCHANGED <<queue, now, next_id, is_running, loops, calls, arq, quizzes,
                   modified_count, frame>>

\* _handle_job_failure, retry: asyncio.sleep(wait_time) is over, the job goes
\* back to pending, then the task ends
Requeue(t) ==
    /\ t.pc = "backoff"
    /\ queue' = {IF j._id = t.job._id
                  THEN RequeuedDoc(j, t.error, t.job.retry_count + 1)
                  ELSE j : j \in queue}
    /\ Finish(t)
    /\ UNCHANGED <<videos, now, next_id, is_running, loops, calls, arq, quizzes,
                   modified_count, frame>>

\* ------------------------------------------------------------ the polling loop
\* start_worker: is_running = True and the first pass of the while loop
StartWorker(l) ==
    /\ loops[l].pc = "off"
    /\ \A m \in Loops : m < l => loops[m].pc # "off"
    /\ is_running' = TRUE
    /\ loops' = [loops EXCEPT ![l].pc = "claim"]
    /\ UNCHANGED <<queue, videos, now, next_id, semaphore, tasks, calls, arq, quizzes,
                   modified_count, frame>>

\* a gather that returns while tasks of the batch are still running
GatherWithoutWaiting(l) ==
    /\ loops[l].pc = "gather"
    /\ loops' = [loops EXCEPT ![l] = [pc |-> "sleep", claimed |-> <<>>]]
    /\ UNCHANGED <<queue, videos, now, next_id, is_running, semaphore, tasks,
                   calls, arq, quizzes, modified_count, frame>>

\* await asyncio.gather(*tasks, return_exceptions=True) returns
Gather(l) ==
    /\ loops[l].pc = "gather"
    /\ \A t \in tasks : t.loop # l
    /\ loops' = [loops EXCEPT ![l] = [pc |-> "sleep", claimed |-> <<>>]]
    /\ UNCHANGED <<queue, videos, now, next_id, is_running, semaphore, tasks,
                   calls, arq, quizzes, modified_count, frame>>

\* await asyncio.sleep(self.poll_interval), then "while self.is_running"
Sleep(l) ==
    /\ loops[l].pc = "sleep"
    /\ loops' = [loops EXCEPT ![l].pc = IF is_running THEN "claim" ELSE "exited"]
    /\ UNCHANGED <<queue, videos, now, next_id, is_running, semaphore, tasks,
                   calls, arq, quizzes, modified_count, frame>>

\* a store error in _claim_pending_jobs that nothing catches: the loop ends
ClaimErrorUncaught(l) ==
    /\ loops[l].pc = "claim"
    /\ loops' = [loops EXCEPT ![l] = [pc |-> "exited", claimed |-> <<>>]]
    /\ UNCHANGED <<queue, videos, now, next_id, is_running, semaphore, tasks,
                   calls, arq, quizzes, modified_count, frame>>

\* find_one_and_update raises (store outage): the exception leaves
\* _claim_pending_jobs and _process_batch, the jobs already claimed by this
\* call are dropped with its local list, start_worker catches it ("Worker
\* batch error") and goes on to asyncio.sleep(poll_interval)
ClaimError(l) ==
    /\ loops[l].pc = "claim"
    /\ loops' = [loops EXCEPT ![l] = [pc |-> "sleep", claimed |-> <<>>]]
    /\ UNCHANGED <<queue, videos, now, next_id, is_running, semaphore, tasks,
                   calls, arq, quizzes, modified_count, frame>>

\* update_one of _handle_job_failure raises (store outage): nothing catches
\* it inside the task, the semaphore is released, the task ends with the
\* exception and gather(return_exceptions=True) keeps it as a result
HandlerError(t) ==
    /\ t.pc \in {"fail_job", "backoff"}
    /\ Finish(t)
    /\ UNCHANGED <<queue, videos, now, next_id, is_running, loops, calls, arq,
                   quizzes, modified_count, frame>>

\* a stop that also cancels the job tasks in flight
StopWorkerCancelling ==
    /\ is_running' = FALSE
    /\ tasks' = {}
    /\ semaphore' = max_concurrent
    /\ UNCHANGED <<queue, videos, now, next_id, loops, calls, arq, quizzes,
                   modified_count, frame>>

\* stop_worker: self.is_running = False
StopWorker ==
    /\ is_running' = FALSE
    /\ UNCHANGED <<queue, videos, now, next_id, semaphore, loops, tasks, calls,
                   arq, quizzes, modified_count, frame>>

\* main.lifespan after the yield: worker_task.cancel() and "await
\* worker_task". CancelledError is raised at the await the polling loop is
\* suspended at; "except Exception" does not catch it, "except
\* asyncio.CancelledError" clears is_running and re-raises. A loop cancelled
\* inside asyncio.gather cancels the job tasks of its batch: each of them
\* gets CancelledError at its own await, which "except Exception" of
\* _process_single_job does not catch either, leaves "async with
\* self.semaphore" (a held permit returns) and ends without another write.
\* Loop 1 is the task the lifespan created.
Shutdown ==
    /\ loops[1].pc \in {"claim", "gather", "sleep"}
    /\ loops' = [loops EXCEPT ![1] = [pc |-> "cancelled", claimed |-> <<>>]]
    /\ is_running' = FALSE
    /\ tasks' = {t \in tasks : t.loop # 1}
    /\ semaphore' = semaphore
                    + Cardinality({t \in tasks : t.loop = 1 /\ t.pc # "wait"})
    /\ UNCHANGED <<queue, videos, now, next_id, calls, arq, quizzes,
                   modified_count, frame>>

\* ------------------------------------------------------------ queue helpers
IdleCall == [pc |-> "idle", video_id |-> 0, priority |-> 0, ret |-> FALSE]

\* add_to_queue up to insert_one: find_one({"video_id": video_id})
AddToQueueFind(c, v, p) ==
    /\ calls[c].pc = "idle"
    /\ next_id + Cardinality({d \in Callers : calls[d].pc = "insert"}) <= MaxJobs
    /\ calls' = [calls EXCEPT ![c] =
                    IF \E j \in queue : j.video_id = v
                    THEN [pc |-> "done", video_id |-> v, priority |-> p,
                          ret |-> FALSE]
                    ELSE [pc |-> "insert", video_id |-> v, priority |-> p,
                          ret |-> FALSE]]
    /\ UNCHANGED <<queue, videos, now, next_id, is_running, semaphore, loops,
                   tasks, arq, quizzes, modified_count, frame>>

\* add_to_queue: insert_one(job); the DuplicateKeyError of the unique index
\* is caught by "except Exception" and gives False
AddToQueueInsert(c) ==
    /\ calls[c].pc = "insert"
    /\ LET job == NewJob(next_id, calls[c].video_id, calls[c].priority, now) IN
       IF DuplicateKey(queue, job)
       THEN /\ calls' = [calls EXCEPT ![c].pc = "done", ![c].ret = FALSE]
            /\ UNCHANGED <<queue, next_id>>
       ELSE /\ queue' = queue \cup {job}
            /\ next_id' = next_id + 1
            /\ calls' = [calls EXCEPT ![c].pc = "done", ![c].ret = TRUE]
    /\ UNCHANGED <<videos, now, is_running, semaphore, loops, tasks, arq, quizzes,
                   modified_count, frame>>

\* the request is answered; the client may send the next one
AddToQueueReturn(c) ==
    /\ calls[c].pc = "done"
    /\ calls' = [calls EXCEPT ![c] = IdleCall]
    /\ UNCHANGED <<queue, videos, now, next_id, is_running, semaphore, loops,
                   tasks, arq, quizzes, modified_count, frame>>

\* a reset that leaves the retry bookkeeping as it was
ResetDocKeepingRetries(j) == [j EXCEPT !.status = "pending", !.updated_at = now]

\* "$set" of retry_failed_jobs
ResetDoc(j) ==
    [j EXCEPT !.status = "pending", !.retry_count = 0, !.error_message = "",
              !.updated_at = now]

\* retry_failed_jobs: update_many({"status": "failed"}, ...) and
\* return result.modified_count
RetryFailedJobs ==
    /\ queue' = {IF j.status = "failed" THEN ResetDoc(j) ELSE j : j \in queue}
    /\ modified_count' = Cardinality({j \in queue : j.status = "failed"})
    /\ UNCHANGED <<videos, now, next_id, is_running, semaphore, loops, tasks,
                   calls, arq, quizzes, frame>>

\* get_course_processing_status for the course all the videos belong to: the
\* $group of db.videos by processing_status, then, when a video is counted
\* failed, one entry for every failed job whose video is in the course. The
\* reads are taken as one; failed_videos is written as a set, its order
\* being the cursor's.
GetCourseProcessingStatus ==
    LET count == [s \in {"pending", "processing", "completed", "failed"} |->
                    Cardinality({v \in VideoIds :
                                    /\ videos[v] # NoVideo
                                    /\ videos[v].processing_status = s})]
    IN [total_videos |-> Cardinality({v \in VideoIds : videos[v] # NoVideo}),
        pending |-> count["pending"],
        processing |-> count["processing"],
        completed |-> count["completed"],
        failed |-> count["failed"],
        failed_videos |->
            IF count["failed"] > 0
            THEN {[video_id |-> j.video_id, error |-> j.error_message,
                   retries |-> j.retry_count] :
                  j \in {k \in queue : /\ k.status = "failed"
                                        /\ videos[k.video_id] # NoVideo}}
            ELSE {}]

\* a purge filter without the status
PurgeableWhateverStatus(j, older_than_days) == j.updated_at < now - older_than_days

\* the filter of clear_completed_jobs, cutoff_date = now - older_than_days
Purgeable(j, older_than_days) ==
    j.status = "completed" /\ j.updated_at < now - older_than_days

\* clear_completed_jobs: delete_many
ClearCompletedJobs(older_than_days) ==
    /\ queue' = {j \in queue : ~Purgeable(j, older_than_days)}
    /\ UNCHANGED <<videos, now, next_id, is_running, semaphore, loops, tasks,
                   calls, arq, quizzes, modified_count, frame>>

\* time passes
Tick ==
    /\ now < MaxTime
    /\ now' = now + 1
    /\ UNCHANGED <<queue, videos, next_id, is_running, semaphore, loops, tasks,
                   calls, arq, quizzes, modified_count, frame>>

\* ------------------------------------------------------------ the quiz task
\* worker.generate_quiz_task up to the Gemini call: what it finds in db.videos
QuizOutcome(v) ==
    IF v = NoVideo THEN "video not found"
    ELSE IF v.transcript = "" THEN "no transcript"
    ELSE "quiz generated"

\* ARQ runs generate_quiz_task(video_id)
GenerateQuizTask(id) ==
    /\ id \in arq
    /\ arq' = arq \ {id}
    /\ quizzes' = IF QuizOutcome(videos[id]) = "quiz generated"
                   THEN quizzes \cup {id} ELSE quizzes
    /\ UNCHANGED <<queue, videos, now, next_id, is_running, semaphore, loops,
                   tasks, calls, modified_count, frame>>

\* ------------------------------------------------------------ similarity
\* A stored embedding is written as what binary_to_embedding and
\* cosine_similarity make of it against the query at hand: a similarity, or
\* an exception (bytes that are no float32 vector of the query's dimension).
Undecodable == [ok |-> FALSE, sim |-> 0]
Embeddings == [ok : {TRUE}, sim : 0..MaxScore] \cup {Undecodable}

\* the "for video_id, emb_binary in candidate_embeddings" loop: a pair
\* (id, similarity) for every candidate whose conversion does not raise
RECURSIVE Similarities(_)
Similarities(candidates) ==
    IF candidates = <<>> THEN <<>>
    ELSE LET rest == Similarities(SubSeq(candidates, 1, Len(candidates) - 1))
             c == candidates[Len(candidates)]
         IN IF c[2].ok THEN Append(rest, <<c[1], c[2].sim>>) ELSE rest

\* a placement that puts a pair ahead of the pairs of its own score
InsertBeforeTies(sorted, x) ==
    LET n == Cardinality({i \in 1..Len(sorted) : sorted[i][2] > x[2]})
    IN SubSeq(sorted, 1, n) \o <<x>> \o SubSeq(sorted, n + 1, Len(sorted))

\* where the stable sort puts x, the next pair of the input, among the pairs
\* before it: behind every pair with a score at least its own
InsertDescending(sorted, x) ==
    LET n == Cardinality({i \in 1..Len(sorted) : sorted[i][2] >= x[2]})
    IN SubSeq(sorted, 1, n) \o <<x>> \o SubSeq(sorted, n + 1, Len(sorted))

\* similarities.sort(key=lambda x: x[1], reverse=True)
RECURSIVE SortDescending(_)
SortDescending(pairs) ==
    IF pairs = <<>> THEN <<>>
    ELSE InsertDescending(SortDescending(SubSeq(pairs, 1, Len(pairs) - 1)),
                          pairs[Len(pairs)])

\* the slice s[:k] of Python
Slice(s, k) ==
    IF k >= 0 THEN SubSeq(s, 1, IF k <= Len(s) THEN k ELSE Len(s))
    ELSE SubSeq(s, 1, IF Len(s) + k >= 0 THEN Len(s) + k ELSE 0)

\* find_most_similar(query_embedding, candidate_embeddings, top_k)
FindMostSimilar(candidates, top_k) ==
    IF candidates = <<>> THEN <<>>
    ELSE Slice(SortDescending(Similarities(candidates)), top_k)

\* the call returns
FindMostSimilarCall ==
    /\ frame.op = "find_most_similar"
    /\ ~frame.returned
    /\ frame' = [frame EXCEPT
                    !.returned = TRUE,
                    !.result = FindMostSimilar(frame.candidates, frame.top_k)]
    /\ UNCHANGED <<queue, videos, now, next_id, is_running, semaphore, loops,
                   tasks, calls, arq, quizzes, modified_count>>

\* ------------------------------------------------------------ free-text search
\* text[:150] + "..." if len(text) > 150 else text: the beginning of the text
Preview(text) == <<"preview", text>>

\* search_candidates: a tuple (video id, embedding, kind, text) for every
\* chunk, then one for every video that has an embedding
SearchCandidates(chunks, fulls) ==
    [i \in 1..Len(chunks) |->
        <<chunks[i].video_id, chunks[i].embedding, "chunk", chunks[i].text>>]
    \o [i \in 1..Len(fulls) |->
        <<fulls[i].id, fulls[i].embedding, "full", fulls[i].transcript>>]

\* raw_candidates: the key f"{v_id}_{i}" is read back with
\* int(key.split('_')[-1]), its last field: the key is written as i
RawCandidates(search_candidates) ==
    [i \in 1..Len(search_candidates) |-> <<i, search_candidates[i][2]>>]

\* one pass of "for key, score in similar": the entry of the video is made,
\* or replaced when the score is strictly higher; a dict keeps its entries in
\* the order they were first made
Upsert(grouped, v_id, score, text) ==
    IF \E i \in 1..Len(grouped) : grouped[i][1] = v_id
    THEN [i \in 1..Len(grouped) |->
            IF grouped[i][1] = v_id /\ score > grouped[i][2]
            THEN <<v_id, score, Preview(text)>> ELSE grouped[i]]
    ELSE Append(grouped, <<v_id, score, Preview(text)>>)

RECURSIVE Grouped(_, _)
Grouped(similar, search_candidates) ==
    IF similar = <<>> THEN <<>>
    ELSE LET last == similar[Len(similar)]
             c == search_candidates[last[1]]
         IN Upsert(Grouped(SubSeq(similar, 1, Len(similar) - 1),
                           search_candidates),
                   c[1], last[2], c[4])

\* semantic_search(query_text, limit) over the chunks and the videos with an
\* embedding that the two find() calls return; every video of a chunk is in
\* db.videos, and round(score, 4) leaves the scores of the model as they are
SemanticSearch(chunks, fulls, limit) ==
    LET search_candidates == SearchCandidates(chunks, fulls)
        similar == FindMostSimilar(RawCandidates(search_candidates), limit * 2)
        sorted_ids == Slice(SortDescending(Grouped(similar, search_candidates)),
                            limit)
    IN IF search_candidates = <<>> THEN <<>>
       ELSE [i \in 1..Len(sorted_ids) |->
               [video_id |-> sorted_ids[i][1],
                similarity_score |-> sorted_ids[i][2],
                transcript_preview |-> sorted_ids[i][3]]]

\* the call returns
SemanticSearchCall ==
    /\ frame.op = "semantic_search"
    /\ ~frame.returned
    /\ frame' = [frame EXCEPT
                    !.returned = TRUE,
                    !.result = SemanticSearch(frame.chunks, frame.fulls,
                                              frame.limit)]
    /\ UNCHANGED <<queue, videos, now, next_id, is_running, semaphore, loops,
                   tasks, calls, arq, quizzes, modified_count>>

\* ------------------------------------------------------------ chunk_text
\* A text is a sequence of characters, " " or "a"; the character Python calls
\* text[i] is text[i + 1] here.
Chars == {" ", "a"}

\* text.rfind(' ', start, end): the highest index in [start, end) that holds
\* a space, or -1
RFindSpace(text, start, end) ==
    LET stop == IF end <= Len(text) THEN end ELSE Len(text)
        found == {i \in start..(stop - 1) : text[i + 1] = " "}
    IN IF found = {} THEN 0 - 1
       ELSE CHOOSE i \in found : \A k \in found : k <= i

\* text[start:end] for 0 <= start
Substring(text, start, end) ==
    SubSeq(text, start + 1, IF end <= Len(text) THEN end ELSE Len(text))

\* str.strip(): without the spaces at both ends
RECURSIVE Strip(_)
Strip(text) ==
    IF text = <<>> THEN <<>>
    ELSE IF text[1] = " " THEN Strip(SubSeq(text, 2, Len(text)))
    ELSE IF text[Len(text)] = " " THEN Strip(SubSeq(text, 1, Len(text) - 1))
    ELSE text

\* the end of the window that begins at start: start + chunk_size_chars,
\* moved back to the last space of the window when the window ends inside
\* the text and that space lies behind start
WindowEnd(text, start, chunk_size_chars) ==
    LET end == start + chunk_size_chars
        last_space == RFindSpace(text, start, end)
    IN IF end < Len(text) /\ last_space # 0 - 1 /\ last_space > start
       THEN last_space ELSE end

\* chunk_text up to the while loop: the two early returns
ChunkTextEnter ==
    /\ frame.op = "chunk_text" /\ frame.pc = "enter"
    /\ frame' = IF frame.text = <<>>
                 THEN [frame EXCEPT !.pc = "returned"]
                 ELSE IF Len(frame.text) <= frame.chunk_size_chars
                 THEN [frame EXCEPT !.pc = "returned", !.chunks = <<frame.text>>]
                 ELSE [frame EXCEPT !.pc = "loop"]
    /\ UNCHANGED <<queue, videos, now, next_id, is_running, semaphore, loops,
                   tasks, calls, arq, quizzes, modified_count>>

\* one test of "while start < len(text)" and the pass that follows it
ChunkTextLoop ==
    /\ frame.op = "chunk_text" /\ frame.pc = "loop"
    /\ Len(frame.chunks) < MaxIterations
    /\ frame' =
          IF frame.start < Len(frame.text)
          THEN LET end == WindowEnd(frame.text, frame.start,
                                    frame.chunk_size_chars)
                   start == end - frame.overlap_chars
               IN [frame EXCEPT
                     !.chunks = Append(@, Strip(Substring(frame.text,
                                                          frame.start, end))),
                     !.start = IF start < 0 THEN 0 ELSE start]
          ELSE [frame EXCEPT !.pc = "returned"]
    /\ UNCHANGED <<queue, videos, now, next_id, is_running, semaphore, loops,
                   tasks, calls, arq, quizzes, modified_count>>

\* ------------------------------------------------- transcript_service.py
\* Times are hundredths of a second.

\* self.rate_limit_delay = (2, 5), the delay_range the worker passes
rate_limit_delay == <<2, 5>>

\* random.uniform(delay_range[0], delay_range[1]), on the whole seconds
RateLimitDelays == {100 * s : s \in rate_limit_delay[1]..rate_limit_delay[2]}

\* random.uniform(-0.2, 0.2), in percent
jitter_percent == 20
Jitters == (0 - jitter_percent)..jitter_percent

\* _retry_with_backoff(video_id, max_retries=3)
fetch_max_retries == 3

\* None, and "if result": None and the empty string are false
PyNone == "<None>"
Truthy(result) == result # PyNone /\ result # ""

\* what one request to youtube_transcript_api ends with: the transcript,
\* NoTranscriptFound, TranscriptsDisabled or VideoUnavailable, or any other
\* exception (a blocked request, a network error)
ApiOutcomes == {"transcript", "NoTranscriptFound", "unavailable", "error"}

\* the log of one call: its sleeps ("delay", "backoff"), the requests it
\* sends to the provider and the exceptions of run_in_executor ("raised")
Event(kind, time, outcome) == [kind |-> kind, time |-> time, outcome |-> outcome]

\* backoff + jitter of _retry_with_backoff for backoff = 2 ** attempt
FetchWaitTime(attempt, u) == (2 ^ attempt) * (100 + u)

\* _retry_with_backoff returns what _fetch_transcript_sync returned, or None,
\* and get_transcript_with_rate_limit returns "result or ''"
FetchReturn(result) ==
    [frame EXCEPT !.pc = "returned",
                  !.result = IF Truthy(result) THEN result ELSE ""]

\* get_transcript_with_rate_limit: the one sleep before _retry_with_backoff
RateLimitSleep ==
    /\ frame.op = "get_transcript_with_rate_limit" /\ frame.pc = "delay"
    /\ \E delay \in RateLimitDelays :
          frame' = [frame EXCEPT !.pc = "submit",
                                 !.events = Append(@, Event("delay", delay, ""))]
    /\ UNCHANGED <<queue, videos, now, next_id, is_running, semaphore, loops,
                   tasks, calls, arq, quizzes, modified_count>>

\* one pass of "for attempt in range(max_retries)": run_in_executor starts
\* _fetch_transcript_sync, or raises (the executor is shut down) and the
\* except branch either goes to its backoff or returns None
RunInExecutor ==
    /\ frame.op = "get_transcript_with_rate_limit" /\ frame.pc = "submit"
    /\ \E raised \in BOOLEAN :
          frame' =
             IF ~raised
             THEN [frame EXCEPT !.pc = "fetch_en"]
             ELSE IF frame.attempt < fetch_max_retries - 1
             THEN [frame EXCEPT !.pc = "backoff",
                                !.events = Append(@, Event("raised", 0, ""))]
             ELSE [FetchReturn(PyNone) EXCEPT
                      !.events = Append(@, Event("raised", 0, ""))]
    /\ UNCHANGED <<queue, videos, now, next_id, is_running, semaphore, loops,
                   tasks, calls, arq, quizzes, modified_count>>

\* _fetch_transcript_sync: self._api.fetch(video_id, languages=["en"])
FetchEnglish ==
    /\ frame.op = "get_transcript_with_rate_limit" /\ frame.pc = "fetch_en"
    /\ \E outcome \in ApiOutcomes : \E text \in Texts :
          frame' =
             [(IF outcome = "transcript" THEN FetchReturn(text)
               ELSE IF outcome = "unavailable" THEN FetchReturn(PyNone)
               ELSE [frame EXCEPT !.pc = "list"])
              EXCEPT !.events = Append(@, Event("request", 0, outcome))]
    /\ UNCHANGED <<queue, videos, now, next_id, is_running, semaphore, loops,
                   tasks, calls, arq, quizzes, modified_count>>

\* _fetch_transcript_sync: self._api.list(video_id), which lists one
\* transcript or none
ListTranscripts ==
    /\ frame.op = "get_transcript_with_rate_limit" /\ frame.pc = "list"
    /\ \E outcome \in {"listed", "none listed", "unavailable", "error"} :
          frame' =
             [(IF outcome = "listed" THEN [frame EXCEPT !.pc = "translate"]
               ELSE FetchReturn(PyNone))
              EXCEPT !.events = Append(@, Event("request", 0, outcome))]
    /\ UNCHANGED <<queue, videos, now, next_id, is_running, semaphore, loops,
                   tasks, calls, arq, quizzes, modified_count>>

\* _fetch_transcript_sync: t.translate("en").fetch()
FetchTranslated ==
    /\ frame.op = "get_transcript_with_rate_limit" /\ frame.pc = "translate"
    /\ \E outcome \in {"transcript", "error"} : \E text \in Texts :
          frame' =
             [(IF outcome = "transcript" THEN FetchReturn(text)
               ELSE [frame EXCEPT !.pc = "original"])
              EXCEPT !.events = Append(@, Event("request", 0, outcome))]
    /\ UNCHANGED <<queue, videos, now, next_id, is_running, semaphore, loops,
                   tasks, calls, arq, quizzes, modified_count>>

\* _fetch_transcript_sync: t.fetch(), after which the list is at its end
FetchOriginal ==
    /\ frame.op = "get_transcript_with_rate_limit" /\ frame.pc = "original"
    /\ \E outcome \in {"transcript", "error"} : \E text \in Texts :
          frame' =
             [(IF outcome = "transcript" THEN FetchReturn(text)
               ELSE FetchReturn(PyNone))
              EXCEPT !.events = Append(@, Event("request", 0, outcome))]
    /\ UNCHANGED <<queue, videos, now, next_id, is_running, semaphore, loops,
                   tasks, calls, arq, quizzes, modified_count>>

\* _retry_with_backoff: asyncio.sleep(wait_time) and the next attempt
RetryBackoff ==
    /\ frame.op = "get_transcript_with_rate_limit" /\ frame.pc = "backoff"
    /\ \E u \in Jitters :
          frame' = [frame EXCEPT
                      !.pc = "submit",
                      !.attempt = @ + 1,
                      !.events = Append(@, Event("backoff",
                                          FetchWaitTime(frame.attempt, u), ""))]
    /\ UNCHANGED <<queue, videos, now, next_id, is_running, semaphore, loops,
                   tasks, calls, arq, quizzes, modified_count>>

\* ------------------------------------- _handle_job_failure, with its sleep
\* a backoff computed from the retry count the job had before this failure
WaitTimeBeforeIncrement(retry_count, u) == (2 ^ (retry_count - 1)) * (100 + u)

\* backoff + jitter of _handle_job_failure for backoff = 2 ** retry_count,
\* in hundredths of a second, u the percent drawn by random.uniform(-0.2, 0.2)
WaitTime(retry_count, u) == (2 ^ retry_count) * (100 + u)

\* _handle_job_failure(job, error_msg) up to its first await
HandlerEnter ==
    /\ frame.op = "_handle_job_failure" /\ frame.pc = "enter"
    /\ LET retry_count == frame.job.retry_count + 1
       IN IF Exhausted(retry_count)
          THEN frame' = [frame EXCEPT !.pc = "fail_job",
                                      !.retry_count = retry_count]
          ELSE \E u \in Jitters :
                  frame' = [frame EXCEPT
                              !.pc = "sleep",
                              !.retry_count = retry_count,
                              !.wait_time = WaitTime(retry_count, u)]
    /\ UNCHANGED <<queue, videos, now, next_id, is_running, semaphore, loops,
                   tasks, calls, arq, quizzes, modified_count>>

\* the exhausted branch: the job document, then the video document
HandlerMarkFailed ==
    /\ frame.op = "_handle_job_failure" /\ frame.pc = "fail_job"
    /\ frame' = [frame EXCEPT
                   !.pc = "returned",
                   !.job = FailedDoc(@, frame.error_msg, frame.retry_count),
                   !.video = FailedVideo(@)]
    /\ UNCHANGED <<queue, videos, now, next_id, is_running, semaphore, loops,
                   tasks, calls, arq, quizzes, modified_count>>

\* the retry branch: await asyncio.sleep(wait_time)
HandlerSleep ==
    /\ frame.op = "_handle_job_failure" /\ frame.pc = "sleep"
    /\ frame' = [frame EXCEPT !.pc = "requeue",
                              !.sleeps = Append(@, frame.wait_time)]
    /\ UNCHANGED <<queue, videos, now, next_id, is_running, semaphore, loops,
                   tasks, calls, arq, quizzes, modified_count>>

\* the retry branch: the job document goes back to pending
HandlerRequeue ==
    /\ frame.op = "_handle_job_failure" /\ frame.pc = "requeue"
    /\ frame' = [frame EXCEPT
                   !.pc = "returned",
                   !.job = RequeuedDoc(@, frame.error_msg, frame.retry_count)]
    /\ UNCHANGED <<queue, videos, now, next_id, is_running, semaphore, loops,
                   tasks, calls, arq, quizzes, modified_count>>

\* ------------------------------------------------------------- queue.py
\* redis_pool = None; a pool is named by its place among the pools created
NoPool == 0

\* the tasks that may call enqueue_quiz_job at the same time: the job tasks
\* that hold a permit of the semaphore, and one request of the admin router
PoolCallers == 1..(max_concurrent + 1)

IdlePoolCaller == [pc |-> "idle", pool |-> NoPool]

\* enqueue_quiz_job (a first or a later call of the task) up to the first
\* await: get_redis_pool tests "redis_pool is None" and either awaits
\* create_pool or returns redis_pool
GetRedisPool(c) ==
    /\ frame.op = "enqueue_quiz_job"
    /\ frame.callers[c].pc \in {"idle", "returned"}
    /\ frame' = [frame EXCEPT
                   !.callers[c] =
                      IF frame.redis_pool = NoPool
                      THEN [pc |-> "create_pool", pool |-> NoPool]
                      ELSE [pc |-> "enqueue_job", pool |-> frame.redis_pool]]
    /\ UNCHANGED <<queue, videos, now, next_id, is_running, semaphore, loops,
                   tasks, calls, arq, quizzes, modified_count>>

\* create_pool returns: redis_pool = the new pool, "return redis_pool"
CreatePool(c) ==
    /\ frame.op = "enqueue_quiz_job" /\ frame.callers[c].pc = "create_pool"
    /\ frame.created < MaxPools
    /\ LET pool == frame.created + 1
       IN frame' = [frame EXCEPT
                      !.created = pool,
                      !.redis_pool = pool,
                      !.open = @ \cup {pool},
                      !.callers[c] = [pc |-> "enqueue_job", pool |-> pool]]
    /\ UNCHANGED <<queue, videos, now, next_id, is_running, semaphore, loops,
                   tasks, calls, arq, quizzes, modified_count>>

\* await pool.enqueue_job('generate_quiz_task', video_id) on the pool that
\* get_redis_pool returned, and the return of enqueue_quiz_job
EnqueueJob(c) ==
    /\ frame.op = "enqueue_quiz_job" /\ frame.callers[c].pc = "enqueue_job"
    /\ frame' = [frame EXCEPT !.callers[c].pc = "returned"]
    /\ UNCHANGED <<queue, videos, now, next_id, is_running, semaphore, loops,
                   tasks, calls, arq, quizzes, modified_count>>

\* close_redis_pool, called while no enqueue_quiz_job is in progress: the
\* pool is closed and redis_pool = None; the callers may call again
CloseRedisPool ==
    /\ frame.op = "enqueue_quiz_job"
    /\ \A c \in PoolCallers : frame.callers[c].pc \in {"idle", "returned"}
    /\ frame.redis_pool # NoPool
    /\ frame' = [frame EXCEPT !.redis_pool = NoPool,
                              !.open = {},
                              !.callers = [c \in PoolCallers |-> IdlePoolCaller]]
    /\ UNCHANGED <<queue, videos, now, next_id, is_running, semaphore, loops,
                   tasks, calls, arq, quizzes, modified_count>>

\* ------------------------------------------------------------ specifications
Init ==
    /\ queue = {}
    /\ videos = [v \in VideoIds |-> IF v \in Imported THEN NewVideo ELSE NoVideo]
    /\ now = 0
    /\ next_id = 1
    /\ is_running = FALSE
    /\ semaphore = max_concurrent
    /\ loops = [l \in Loops |-> [pc |-> "off", claimed |-> <<>>]]
    /\ tasks = {}
    /\ calls = [c \in Callers |-> IdleCall]
    /\ arq = {}
    /\ quizzes = {}
    /\ modified_count = 0
    /\ frame = NoFrame

\* in Spec the requests of one client follow one another
Client == CHOOSE c \in Callers : \A d \in Callers : c <= d

TaskStep(t) ==
    \/ Acquire(t)
    \/ FindVideo(t)
    \/ FetchTranscript(t)
    \/ GenerateEmbedding(t)
    \/ EnqueueQuizJob(t)
    \/ WriteVideo(t)
    \/ MarkCompleted(t)
    \/ MarkFailed(t)
    \/ MarkVideoFailed(t)
    \/ Requeue(t)

\* one polling loop and the job tasks it dispatched
LoopNext(l) == StartWorker(l) \/ ClaimStep(l) \/ Gather(l) \/ Sleep(l)

\* the requests of the admin client
ApiNext ==
    \/ \E v \in VideoIds, p \in Priorities : AddToQueueFind(Client, v, p)
    \/ AddToQueueInsert(Client)
    \/ AddToQueueReturn(Client)
    \/ RetryFailedJobs

\* Spec: every start_worker() task, the job tasks and the requests. The clock
\* stands still, so all created_at tie and a claim may pick any pending job
\* of the highest priority.
Next ==
    \/ \E l \in Loops : LoopNext(l)
    \/ \E t \in tasks : TaskStep(t)
    \/ ApiNext

Spec == Init /\ [][Next]_vars

\* SpecStore: the worker as the application starts it (the one loop of
\* lifespan), with the clock, clear_completed_jobs and the ARQ worker.
FirstLoop == CHOOSE l \in Loops : \A m \in Loops : l <= m

StoreNext ==
    \/ LoopNext(FirstLoop)
    \/ \E t \in tasks : TaskStep(t)
    \/ ApiNext
    \/ \E d \in 0..MaxDays : ClearCompletedJobs(d)
    \/ Tick
    \/ \E id \in VideoIds : GenerateQuizTask(id)

SpecStore == Init /\ [][StoreNext]_vars

\* SpecStop: the polling loops, the job tasks, add_to_queue requests and
\* stop_worker; start_worker is not called again once the worker was stopped.
\* The event loop runs every task that is ready and every awaited call returns:
\* weak fairness of each polling loop and of the job tasks.
Running == is_running \/ \A m \in Loops : loops[m].pc = "off"

LoopStep(l) == ClaimStep(l) \/ Gather(l) \/ Sleep(l)

StopNext ==
    \/ \E l \in Loops : Running /\ StartWorker(l)
    \/ \E l \in Loops : LoopStep(l)
    \/ \E t \in tasks : TaskStep(t)
    \/ \E v \in VideoIds, p \in Priorities : AddToQueueFind(Client, v, p)
    \/ AddToQueueInsert(Client)
    \/ AddToQueueReturn(Client)
    \/ StopWorker

SpecStop ==
    /\ Init /\ [][StopNext]_vars
    /\ \A l \in Loops : WF_vars(LoopStep(l))
    /\ WF_vars(\E t \in tasks : TaskStep(t))

\* SpecShutdown: SpecStore with the shutdown of the application, which
\* cancels the task of the polling loop that the lifespan started.
ShutdownNext ==
    \/ StoreNext
    \/ Shutdown

SpecShutdown == Init /\ [][ShutdownNext]_vars

\* SpecOutage: SpecStore with a store that may raise in the claim and in the
\* failure handler; the same fairness as SpecStop.
OutageNext ==
    \/ StoreNext
    \/ ClaimError(FirstLoop)
    \/ \E t \in tasks : HandlerError(t)

SpecOutage ==
    /\ Init /\ [][OutageNext]_vars
    /\ WF_vars(LoopStep(FirstLoop))
    /\ WF_vars(\E t \in tasks : TaskStep(t))

\* the worker and the stores as Init leaves them
Quiet ==
    /\ queue = {}
    /\ videos = [v \in VideoIds |-> IF v \in Imported THEN NewVideo ELSE NoVideo]
    /\ now = 0
    /\ next_id = 1
    /\ is_running = FALSE
    /\ semaphore = max_concurrent
    /\ loops = [l \in Loops |-> [pc |-> "off", claimed |-> <<>>]]
    /\ tasks = {}
    /\ calls = [c \in Callers |-> IdleCall]
    /\ arq = {}
    /\ quizzes = {}
    /\ modified_count = 0

\* SpecTopK: find_most_similar on every list of up to MaxCandidates
\* candidates (the id of a candidate is its place in the list) and every
\* top_k of 0..MaxTopK.
TopKInit ==
    /\ Quiet
    /\ \E n \in 0..MaxCandidates : \E embs \in [1..n -> Embeddings] :
       \E k \in 0..MaxTopK :
          frame = [op |-> "find_most_similar",
                   candidates |-> [i \in 1..n |-> <<i, embs[i]>>],
                   top_k |-> k, returned |-> FALSE, result |-> <<>>]

TopKNext == FindMostSimilarCall

SpecTopK == TopKInit /\ [][TopKNext]_vars

\* SpecSearch: semantic_search over every db.video_chunks of up to MaxChunks
\* chunks (decodable embeddings, each text its own) and every choice of the
\* videos that have an embedding, with every limit of 1..MaxLimit.
Decodable == Embeddings \ {Undecodable}

SearchInit ==
    /\ Quiet
    /\ \E n \in 0..MaxChunks :
       \E owner \in [1..n -> VideoIds], embs \in [1..n -> Decodable] :
       \E stored \in SUBSET VideoIds, full \in [VideoIds -> Decodable] :
       \E limit \in 1..MaxLimit :
          frame = [op |-> "semantic_search",
                   chunks |-> [i \in 1..n |->
                                 [video_id |-> owner[i], embedding |-> embs[i],
                                  text |-> <<"chunk", i>>]],
                   fulls |-> [i \in 1..Cardinality(stored) |->
                                LET v == CHOOSE w \in stored :
                                           Cardinality({u \in stored : u < w}) = i - 1
                                IN [id |-> v, embedding |-> full[v],
                                    transcript |-> <<"transcript", v>>]],
                   limit |-> limit, returned |-> FALSE, result |-> <<>>]

SearchNext == SemanticSearchCall

SpecSearch == SearchInit /\ [][SearchNext]_vars

\* SpecChunk: chunk_text on every text of up to MaxTextLen characters with
\* every chunk_size_chars of 1..MaxChunkSize and every smaller overlap_chars.
ChunkInit ==
    /\ Quiet
    /\ \E n \in 0..MaxTextLen : \E text \in [1..n -> Chars] :
       \E size \in 1..MaxChunkSize : \E overlap \in 0..(size - 1) :
          frame = [op |-> "chunk_text", text |-> text,
                   chunk_size_chars |-> size, overlap_chars |-> overlap,
                   pc |-> "enter", start |-> 0, chunks |-> <<>>]

ChunkNext == ChunkTextEnter \/ ChunkTextLoop

SpecChunk == ChunkInit /\ [][ChunkNext]_vars

\* SpecFetch: one call of get_transcript_with_rate_limit, with every delay,
\* every jitter and every outcome of the requests it makes.
FetchInit ==
    /\ Quiet
    /\ frame = [op |-> "get_transcript_with_rate_limit", pc |-> "delay",
                attempt |-> 0, events |-> <<>>, result |-> PyNone]

FetchNext ==
    \/ RateLimitSleep
    \/ RunInExecutor
    \/ FetchEnglish
    \/ ListTranscripts
    \/ FetchTranslated
    \/ FetchOriginal
    \/ RetryBackoff

SpecFetch == FetchInit /\ [][FetchNext]_vars

\* SpecBackoff: one call of _handle_job_failure for a claimed job with every
\* retry count a claimed job can have, and every jitter.
BackoffInit ==
    /\ Quiet
    /\ \E r \in 0..(max_retries - 1) :
          frame = [op |-> "_handle_job_failure",
                   job |-> [ClaimedDoc(NewJob(1, 1, 0, 0)) EXCEPT
                               !.retry_count = r],
                   video |-> NewVideo,
                   error_msg |-> "failed to fetch transcript",
                   pc |-> "enter", retry_count |-> 0, wait_time |-> 0,
                   sleeps |-> <<>>]

BackoffNext ==
    \/ HandlerEnter
    \/ HandlerMarkFailed
    \/ HandlerSleep
    \/ HandlerRequeue

SpecBackoff == BackoffInit /\ [][BackoffNext]_vars

\* SpecClaim: concurrent _claim_pending_jobs calls over a store that already
\* holds jobs, nothing else running. The jobs that are not pending are failed
\* ones, as the failure handler leaves them; _id follows the order of
\* insertion, so created_at does not decrease with it.
ClaimIds == 1..NumClaimJobs

StoredJob(id, pending, p, t) ==
    IF pending THEN NewJob(id, id, p, t)
    ELSE [NewJob(id, id, p, t) EXCEPT !.status = "failed",
                                      !.retry_count = max_retries,
                                      !.error_message = "failed to fetch transcript"]

ClaimInit ==
    /\ \E pend \in [ClaimIds -> BOOLEAN], prio \in [ClaimIds -> AnyPriority],
          created \in [ClaimIds -> 0..MaxTime] :
          /\ \A i, k \in ClaimIds : i <= k => created[i] <= created[k]
          /\ queue = {StoredJob(i, pend[i], prio[i], created[i]) : i \in ClaimIds}
    /\ videos = [v \in VideoIds |-> IF v \in Imported THEN NewVideo ELSE NoVideo]
    /\ now = MaxTime
    /\ next_id = NumClaimJobs + 1
    /\ is_running = TRUE
    /\ semaphore = max_concurrent
    /\ loops = [l \in Loops |-> [pc |-> "claim", claimed |-> <<>>]]
    /\ tasks = {}
    /\ calls = [c \in Callers |-> IdleCall]
    /\ arq = {}
    /\ quizzes = {}
    /\ modified_count = 0
    /\ frame = NoFrame

ClaimNext == \E l \in Loops : ClaimStep(l)

SpecClaim == ClaimInit /\ [][ClaimNext]_vars

\* SpecEnqueue: concurrent add_to_queue requests, one per caller, over a
\* store that may already hold a job (of any status) for a video. The jobs
\* that were there before have an _id below 1.
Statuses == {"pending", "processing", "completed", "failed"}

EnqueueInit ==
    /\ \E S \in SUBSET VideoIds, st \in [VideoIds -> Statuses] :
          queue = {[NewJob(0 - v, v, 0, 0) EXCEPT
                       !.status = st[v],
                       !.retry_count = IF st[v] = "failed" THEN max_retries ELSE 0,
                       !.error_message = IF st[v] = "failed"
                                         THEN "failed to fetch transcript" ELSE ""]
                   : v \in S}
    /\ videos = [v \in VideoIds |-> IF v \in Imported THEN NewVideo ELSE NoVideo]
    /\ now = 0
    /\ next_id = 1
    /\ is_running = FALSE
    /\ semaphore = max_concurrent
    /\ loops = [l \in Loops |-> [pc |-> "off", claimed |-> <<>>]]
    /\ tasks = {}
    /\ calls = [c \in Callers |-> IdleCall]
    /\ arq = {}
    /\ quizzes = {}
    /\ modified_count = 0
    /\ frame = NoFrame

EnqueueNext ==
    \/ \E c \in Callers, v \in VideoIds, p \in AnyPriority : AddToQueueFind(c, v, p)
    \/ \E c \in Callers : AddToQueueInsert(c)

SpecEnqueue == EnqueueInit /\ [][EnqueueNext]_vars

\* ------------------------------------------------------------ C1
\* the jobs _claim_pending_jobs has taken for loop l: those of the call in
\* progress and, once it returned, those of the tasks made from its result
ClaimedIds(l) ==
    {loops[l].claimed[i]._id : i \in 1..Len(loops[l].claimed)}
    \cup {t.job._id : t \in {u \in tasks : u.loop = l}}
AllClaimedIds == UNION {ClaimedIds(l) : l \in Loops}
Min(a, b) == IF a <= b THEN a ELSE b

\* C1: exactly-once claim. Among concurrent _claim_pending_jobs callers no
\* job is returned twice (neither to two callers nor twice to one), every
\* returned job is in status processing, every job not returned keeps its
\* status (a pending one stays pending), and once all callers have returned
\* the number of jobs returned is min(N * limit, M), M the pending jobs at
\* the start (those with retry_count 0 in SpecClaim).
C1_ExactlyOnceClaim ==
    /\ \A l \in Loops :
          loops[l].pc = "claim" => Cardinality(ClaimedIds(l)) = Len(loops[l].claimed)
    /\ \A l, m \in Loops : l # m => ClaimedIds(l) \cap ClaimedIds(m) = {}
    /\ \A l \in Loops : \A i \in 1..Len(loops[l].claimed) :
          loops[l].claimed[i].status = "processing"
    /\ \A t \in tasks : t.job.status = "processing"
    /\ \A j \in queue :
          IF j._id \in AllClaimedIds THEN j.status = "processing"
          ELSE j.status = (IF j.retry_count = 0 THEN "pending" ELSE "failed")
    /\ (\A l \in Loops : loops[l].pc # "claim")
          => Cardinality(AllClaimedIds) =
                Min(NumLoops * max_concurrent,
                    Cardinality({j \in queue : j.retry_count = 0}))

\* all callers returned a full batch and a pending job is left over
C1_Witness ==
    /\ \A l \in Loops : loops[l].pc = "gather"
                        /\ Cardinality(ClaimedIds(l)) = max_concurrent
    /\ \E j \in queue : j.status = "pending"

\* ------------------------------------------------------------ C2
\* C2: priority order. Every step that takes a job from pending to
\* processing takes one that no pending job precedes: no pending job has a
\* strictly higher priority, and none of the same priority has an earlier
\* created_at.
C2_PriorityOrder ==
    [][\A j \in queue :
          (j.status = "pending"
           /\ \E k \in queue' : k._id = j._id /\ k.status = "processing")
          => \A m \in queue :
                m.status = "pending"
                => /\ m.priority <= j.priority
                   /\ m.priority = j.priority => m.created_at >= j.created_at]_vars

\* a job was claimed ahead of a pending job of lower priority and ahead of a
\* pending job of its own priority created later
C2_Witness ==
    \E j, m, n \in queue :
        /\ j.status = "processing" /\ j._id \in AllClaimedIds
        /\ m.status = "pending" /\ m.priority < j.priority
        /\ n.status = "pending" /\ n.priority = j.priority
        /\ n.created_at > j.created_at

\* ------------------------------------------------------------ C5
JobsFor(v) == {j \in queue : j.video_id = v}
ReturnedTrue(v) ==
    {c \in Callers : calls[c].pc = "done" /\ calls[c].video_id = v /\ calls[c].ret}

C5_EnqueueState ==
    \A v \in VideoIds :
        /\ Cardinality(JobsFor(v)) <= 1
        /\ Cardinality(ReturnedTrue(v)) <= 1
        /\ (\E j \in JobsFor(v) : j._id < 1) => ReturnedTrue(v) = {}
        /\ \A j \in JobsFor(v) :
              j._id >= 1 =>
                 /\ j.status = "pending" /\ j.retry_count = 0
                 /\ j.error_message = ""
                 /\ \E c \in ReturnedTrue(v) : calls[c].priority = j.priority
        /\ (\E c \in Callers : calls[c].pc = "done" /\ calls[c].video_id = v)
              => /\ JobsFor(v) # {}
                 /\ (\A j \in JobsFor(v) : j._id >= 1)
                       => Cardinality(ReturnedTrue(v)) = 1

C5_EnqueueStep ==
    \A c \in Callers :
        (calls[c].pc # "done" /\ calls'[c].pc = "done")
        => IF calls'[c].ret
           THEN /\ JobsFor(calls'[c].video_id) = {}
                /\ queue' = queue \cup {NewJob(next_id, calls'[c].video_id,
                                               calls'[c].priority, now)}
           ELSE /\ JobsFor(calls'[c].video_id) # {}
                /\ queue' = queue

\* C5: enqueue. A call that returns false found a job for the video and left
\* the queue as it was; a call that returns true found none and inserted one
\* job, pending, retry_count 0, error_message empty, with its priority. At
\* all times a video has at most one job and at most one call for it has
\* returned true; when a call for a video that had no job has returned,
\* exactly one call for that video has returned true.
C5_Enqueue == []C5_EnqueueState /\ [][C5_EnqueueStep]_vars

\* two concurrent requests for one video without a job: both passed
\* find_one, one inserted and returned true, the other got the duplicate key
\* error and returned false
C5_Witness ==
    \E c, d \in Callers :
        /\ c # d
        /\ calls[c].pc = "done" /\ calls[d].pc = "done"
        /\ calls[c].video_id = calls[d].video_id
        /\ calls[c].ret /\ ~calls[d].ret
        /\ \A j \in queue : j._id >= 1 /\ j.video_id = calls[c].video_id
        /\ next_id = 2

\* ------------------------------------------------------------ C3
\* C3: retry termination. A pending or processing job has a retry_count
\* below max_retries; every failed attempt (a step that takes a job from
\* processing to pending or to failed) adds exactly one to retry_count, ends
\* in failed exactly when the new retry_count is max_retries and in pending
\* otherwise. So a job that always fails is attempted max_retries times and
\* is never requeued with retry_count == max_retries.
C3_RetryTermination ==
    /\ [](\A j \in queue :
             j.status \in {"pending", "processing"} => j.retry_count < max_retries)
    /\ [][\A j \in queue : \A k \in queue' :
             (k._id = j._id /\ j.status = "processing"
              /\ k.status \in {"pending", "failed"})
             => /\ k.retry_count = j.retry_count + 1
                /\ k.status = "failed" <=> k.retry_count = max_retries]_vars

\* a job has failed for good after max_retries attempts
C3_Witness ==
    \E j \in queue : j.status = "failed" /\ j.retry_count = max_retries

InProcessOne == {t \in tasks : t.pc # "wait"}

\* C6: at most max_concurrent job tasks are inside _process_single_job (past
\* the semaphore and not yet finished), whatever the number of polling loops.
C6_BoundedInFlight == Cardinality(InProcessOne) <= max_concurrent

\* the semaphore is exhausted and a dispatched task waits for a permit
C6_Witness ==
    /\ Cardinality(InProcessOne) = max_concurrent
    /\ \E t \in tasks : t.pc = "wait"
    /\ \E t \in tasks : t.pc = "backoff"

\* ------------------------------------------------------------ C7
\* C7: marking a job completed leaves its retry_count and error_message as
\* the failure handler last wrote them.
C7_CompletedKeepsRetryCount ==
    [][\A j \in queue : \A k \in queue' :
          (k._id = j._id /\ j.status # "completed" /\ k.status = "completed")
          => /\ k.retry_count = j.retry_count
             /\ k.error_message = j.error_message]_vars

\* a job that failed twice and then succeeded: completed, retry_count 2
C7_Witness ==
    \E j \in queue :
        /\ j.status = "completed" /\ j.retry_count = max_retries - 1
        /\ j.error_message # ""

\* ------------------------------------------------------------ C8
\* C8: when an attempt that found the video, fetched a transcript, got an
\* embedding and handed off ends (the step that marks the job completed),
\* the video holds that transcript and embedding with processing_status
\* completed, and the job is completed.
C8_SuccessOutcome ==
    [][\A t \in tasks :
          (t.pc = "mark_completed" /\ t \notin tasks')
          => /\ videos'[t.job.video_id] =
                   [transcript |-> t.transcript, embedding |-> t.embedding,
                    processing_status |-> "completed"]
             /\ \E k \in queue' : k._id = t.job._id /\ k.status = "completed"]_vars

\* ------------------------------------------------------------ C9
\* C9: every video that has an embedding stored has processing_status
\* completed.
C9_EmbeddingImpliesCompleted ==
    \A v \in VideoIds :
        (videos[v] # NoVideo /\ videos[v].embedding # NoEmbedding)
        => videos[v].processing_status = "completed"

\* ------------------------------------------------------------ C10
\* C10: the video is written before its id is handed to ARQ, so every quiz
\* job waiting in ARQ names a video whose transcript is stored.
C10_WrittenBeforeHandoff ==
    \A id \in arq : videos[id] # NoVideo /\ videos[id].transcript # ""

\* ------------------------------------------------------------ C11
\* C11: terminal failure. The step that ends an exhausted attempt writes the
\* job as failed with the attempt's error message and retry_count
\* max_retries; the handler's next step sets the video's processing_status to
\* failed (when the video exists). A failed job stays in the queue and stays
\* as it is: no task works on it (the handler that failed it only has the
\* video left to write), no claim takes it, and the only step that changes it
\* is retry_failed_jobs, which resets every failed job at once.
C11_TerminalFailure ==
    /\ [](\A t \in tasks : \A j \in queue :
             (j._id = t.job._id /\ j.status = "failed") => t.pc = "fail_video")
    /\ [][\A t \in tasks :
             (t.pc = "fail_job" /\ t \notin tasks')
             => /\ t.error # ""
                /\ \E k \in queue' :
                      /\ k._id = t.job._id /\ k.status = "failed"
                      /\ k.error_message = t.error
                      /\ k.retry_count = max_retries]_vars
    /\ [][\A t \in tasks :
             (t.pc = "fail_video" /\ t \notin tasks')
             => \/ videos'[t.job.video_id] = NoVideo
                \/ videos'[t.job.video_id].processing_status = "failed"]_vars
    /\ [][\A j \in queue :
             j.status = "failed"
             => \E k \in queue' :
                   /\ k._id = j._id
                   /\ \/ k = j
                      \/ /\ k.status = "pending" /\ k.retry_count = 0
                         /\ \A m \in queue' : m.status # "failed"]_vars

\* a job failed for good with its error recorded, its video is marked
\* failed, its task is over and a polling loop is claiming again
C11_Witness ==
    /\ tasks = {}
    /\ \E l \in Loops : loops[l].pc = "claim"
    /\ \E j \in queue :
          /\ j.status = "failed" /\ j.error_message # ""
          /\ j.retry_count = max_retries
          /\ videos[j.video_id] # NoVideo
          /\ videos[j.video_id].processing_status = "failed"

\* ------------------------------------------------------------ C12
\* C12: retry_failed_jobs. A step in which a failed job leaves status failed,
\* or in which the returned count changes, is a retry_failed_jobs call: it
\* turns every failed job into a pending one with retry_count 0 and an empty
\* error_message, leaves every pending, processing and completed job exactly
\* as it was, adds and removes no job, and returns the number of jobs that
\* were failed.
C12_RetryFailed ==
    [][(\/ modified_count' # modified_count
        \/ \E j \in queue : j.status = "failed" /\ j \notin queue')
       => /\ \A j \in queue :
                IF j.status = "failed"
                THEN \E k \in queue' :
                        /\ k._id = j._id /\ k.video_id = j.video_id
                        /\ k.status = "pending" /\ k.retry_count = 0
                        /\ k.error_message = ""
                ELSE j \in queue'
          /\ Cardinality(queue') = Cardinality(queue)
          /\ modified_count' = Cardinality({j \in queue : j.status = "failed"})]_vars

\* retry_failed_jobs has reset one job (its video still carries the failed
\* mark) and left alone a job that is being processed after a failure
C12_Witness ==
    /\ modified_count = 1
    /\ \E j, k \in queue :
          /\ j.status = "pending" /\ j.retry_count = 0
          /\ videos[j.video_id] # NoVideo
          /\ videos[j.video_id].processing_status = "failed"
          /\ k.status = "processing" /\ k.retry_count > 0

\* ------------------------------------------------------------ C13
JobStatus(id) ==
    IF \E j \in queue : j._id = id
    THEN (CHOOSE j \in queue : j._id = id).status ELSE "none"

\* C13: stop. Once stop_worker has cleared the flag, no polling loop begins
\* another _claim_pending_jobs call (a loop enters it only with the flag set)
\* and every started loop eventually exits. The job tasks are not cancelled:
\* a task leaves only by the step that ends its own attempt, and every job
\* that is in status processing when the worker is stopped eventually is
\* completed, pending or failed.
C13_StopDrains ==
    /\ [][\A l \in Loops :
             (loops[l].pc # "claim" /\ loops'[l].pc = "claim") => is_running']_vars
    /\ [][\A t \in tasks :
             (\A u \in tasks' : u.job._id # t.job._id \/ u.loop # t.loop)
             => \/ t.pc = "fail_video"
                \/ \E k \in queue' :
                      /\ k._id = t.job._id
                      /\ k.status \in {"completed", "pending"}]_vars
    /\ \A l \in Loops :
          (~is_running /\ loops[l].pc \notin {"off", "exited"})
             ~> (loops[l].pc = "exited")
    /\ \A id \in 1..MaxJobs :
          (~is_running /\ JobStatus(id) = "processing")
             ~> (JobStatus(id) \in {"completed", "pending", "failed"})

\* the worker was stopped while a loop waits for its batch: a task of the
\* batch goes on to its last step and a pending job is left unclaimed
C13_Witness ==
    /\ ~is_running
    /\ \E l \in Loops :
          /\ loops[l].pc = "gather"
          /\ \E t \in tasks : t.loop = l /\ t.pc = "mark_completed"
    /\ \E j \in queue : j.status = "pending"

\* ------------------------------------------------------------ C14
HasTask(id) == \E t \in tasks : t.job._id = id

\* C14: failures do not spread. A step that ends or fails one job task leaves
\* every other task of the batch as it is, the loop waits in gather while a
\* task of its batch is left, and every task runs to its end. No step ends
\* the polling loop while the flag is set (a store error in the claim sends
\* it to the sleep), and a sleeping loop polls again.
C14_FailureContained ==
    /\ [](\A t \in tasks : loops[t.loop].pc = "gather")
    /\ [][\A t, u \in tasks : (t # u /\ t \notin tasks') => u \in tasks']_vars
    /\ \A id \in 1..MaxJobs : HasTask(id) ~> ~HasTask(id)
    /\ [](\A l \in Loops : is_running => loops[l].pc # "exited")
    /\ [][\A l \in Loops :
             (loops[l].pc = "claim" /\ is_running)
             => loops'[l].pc \in {"claim", "gather", "sleep"}]_vars
    /\ \A l \in Loops : (loops[l].pc = "sleep") ~> (loops[l].pc = "claim")

\* a store error left a job in status processing with no task, the other
\* job of the batch reached its outcome, and the loop is polling again
C14_Witness ==
    /\ loops[FirstLoop].pc = "claim" /\ loops[FirstLoop].claimed = <<>>
    /\ \E j, k \in queue :
          /\ j.status = "processing" /\ ~HasTask(j._id)
          /\ k.status = "completed"

\* ------------------------------------------------------------ C15
Scored(candidates) == {i \in 1..Len(candidates) : candidates[i][2].ok}

\* C15: top-k. What find_most_similar returns holds min(top_k, number of
\* decodable candidates) pairs, each the id and the similarity of a decodable
\* candidate and no candidate twice, in non-increasing order of score; no
\* candidate left out scores higher than one returned, and returned pairs of
\* equal score stand in the order of the input.
C15_TopK ==
    (frame.op = "find_most_similar" /\ frame.returned)
    => LET c == frame.candidates
           out == frame.result
           ids == {out[i][1] : i \in 1..Len(out)}
       IN /\ Len(out) = Min(frame.top_k, Cardinality(Scored(c)))
          /\ ids \subseteq Scored(c)
          /\ Cardinality(ids) = Len(out)
          /\ \A i \in 1..Len(out) : out[i][2] = c[out[i][1]][2].sim
          /\ \A i \in 1..Len(out) : \A k \in 1..Len(out) :
                i < k => /\ out[i][2] >= out[k][2]
                         /\ out[i][2] = out[k][2] => out[i][1] < out[k][1]
          /\ \A i \in 1..Len(out) : \A m \in Scored(c) \ ids :
                out[i][2] >= c[m][2].sim

\* three decodable candidates, the first two with the same score, top_k 2:
\* the two come back in the order of the input and the third is cut off
C15_Witness ==
    /\ frame.op = "find_most_similar" /\ frame.returned
    /\ frame.top_k = 2 /\ Cardinality(Scored(frame.candidates)) = 3
    /\ frame.result = <<<<1, 1>>, <<2, 1>>>>

\* ------------------------------------------------------------ C16
\* the candidates of the search: (video id, similarity, text)
AllCandidates ==
    {<<frame.chunks[i].video_id, frame.chunks[i].embedding.sim,
       frame.chunks[i].text>> : i \in 1..Len(frame.chunks)}
    \cup {<<frame.fulls[i].id, frame.fulls[i].embedding.sim,
            frame.fulls[i].transcript>> : i \in 1..Len(frame.fulls)}
BestScore(v) ==
    CHOOSE s \in 0..MaxScore :
        /\ \E c \in AllCandidates : c[1] = v /\ c[2] = s
        /\ \A c \in AllCandidates : c[1] = v => c[2] <= s

\* C16: free-text search returns min(limit, number of videos that have a
\* candidate) entries, no video twice; each entry carries the best score of
\* its video over all its candidates and the preview of a candidate of the
\* video that has that score; no video left out has a higher best score than
\* one returned.
C16_TopDistinctItems ==
    (frame.op = "semantic_search" /\ frame.returned)
    => LET out == frame.result
           items == {c[1] : c \in AllCandidates}
           ids == {out[i].video_id : i \in 1..Len(out)}
       IN /\ Len(out) = Min(frame.limit, Cardinality(items))
          /\ Cardinality(ids) = Len(out)
          /\ ids \subseteq items
          /\ \A i \in 1..Len(out) :
                /\ out[i].similarity_score = BestScore(out[i].video_id)
                /\ \E c \in AllCandidates :
                      /\ c[1] = out[i].video_id
                      /\ c[2] = out[i].similarity_score
                      /\ out[i].transcript_preview = Preview(c[3])
                /\ \A v \in items \ ids :
                      BestScore(v) <= out[i].similarity_score

\* ------------------------------------------------------------ C17
\* C17: forward progress of chunk_text. Each pass of the while loop leaves
\* start strictly above where the pass began, so the loop ends after at most
\* len(text) passes, for every text and every chunk_size_chars >
\* overlap_chars >= 0.
C17_ForwardProgress ==
    /\ [][(frame.op = "chunk_text" /\ frame.pc = "loop"
           /\ frame.start < Len(frame.text))
          => frame'.start > frame.start]_vars
    /\ [](frame.op = "chunk_text" => Len(frame.chunks) <= Len(frame.text))

\* ------------------------------------------------------------ C18
\* C18: get_course_processing_status agrees with the stores. total_videos is
\* the sum of the four counts; every video counted failed has exactly one
\* entry in failed_videos, and every entry is for a video counted failed.
C18_StatusConsistent ==
    LET r == GetCourseProcessingStatus
        counted == {v \in VideoIds : /\ videos[v] # NoVideo
                                     /\ videos[v].processing_status = "failed"}
    IN /\ r.total_videos = r.pending + r.processing + r.completed + r.failed
       /\ r.failed = Cardinality(counted)
       /\ \A v \in counted :
             Cardinality({e \in r.failed_videos : e.video_id = v}) = 1
       /\ \A e \in r.failed_videos : e.video_id \in counted

\* ------------------------------------------------------------ C19
\* the task that _process_batch made from the claimed document j ends or
\* moves in this step
ClaimerActs(j) == \E t \in tasks : t.job = j /\ t \notin tasks'

\* C19: the status transitions of a job. A new document is pending. A job
\* goes from pending to processing only, in a step of a loop that is inside
\* _claim_pending_jobs; from processing to completed, pending or failed only,
\* in a step of the task made from its claimed document; from failed to
\* pending only, with every failed job, by retry_failed_jobs; a completed job
\* keeps its status. Only completed jobs are deleted. A job in status
\* processing is left exactly as it is by every step but one of its own
\* task, so with that task gone it stays processing.
C19_StatusTransitions ==
    [][/\ \A k \in queue' :
             (\A j \in queue : j._id # k._id) => k.status = "pending"
       /\ \A j \in queue :
             /\ (j.status # "completed" => \E k \in queue' : k._id = j._id)
             /\ j.status = "processing" => (j \in queue' \/ ClaimerActs(j))
             /\ \A k \in queue' :
                   (k._id = j._id /\ k.status # j.status)
                   => \/ /\ j.status = "pending" /\ k.status = "processing"
                         /\ \E l \in Loops :
                               /\ loops[l].pc = "claim"
                               /\ loops'[l] # loops[l]
                      \/ /\ j.status = "processing"
                         /\ k.status \in {"completed", "pending", "failed"}
                         /\ ClaimerActs(j)
                      \/ /\ j.status = "failed" /\ k.status = "pending"
                         /\ \A m \in queue' : m.status # "failed"]_vars

\* the task of a job ended on a store error: the job is in status
\* processing with no task, and the loop, retry_failed_jobs and the clock
\* have gone on since
C19_Witness ==
    /\ now = MaxTime
    /\ modified_count > 0
    /\ loops[FirstLoop].pc = "sleep"
    /\ \E j \in queue : j.status = "processing" /\ ~HasTask(j._id)

\* ------------------------------------------------------------ C20
\* C20: one batch at a time. A polling loop is inside _claim_pending_jobs,
\* asleep or not running only when no task of a batch it dispatched is left:
\* it stays in gather until every task has ended, the backoff sleep of a
\* failed attempt and the write that follows it included. Hence every job
\* in status processing was taken by the claim in progress of some loop or
\* belongs to a batch whose loop is still in gather.
C20_BatchBeforeNextClaim ==
    /\ \A t \in tasks : loops[t.loop].pc = "gather"
    /\ \A j \in queue :
          j.status = "processing"
          => \E l \in Loops :
                \/ /\ loops[l].pc = "claim"
                   /\ \E i \in 1..Len(loops[l].claimed) : loops[l].claimed[i] = j
                \/ /\ loops[l].pc = "gather"
                   /\ \E t \in tasks : t.loop = l /\ t.job = j

\* a loop waits in gather for a task that sleeps its backoff while a pending
\* job is in the queue
C20_Witness ==
    \E l \in Loops :
        /\ loops[l].pc = "gather"
        /\ \A m \in Loops : m # l => loops[m].pc = "off"
        /\ \A t \in tasks : t.pc = "backoff"
        /\ tasks # {}
        /\ \E j \in queue : j.status = "pending"

\* ---------------------------------------------------------------- C21
\* the places of the events of one kind in the log of the call
EventsOfKind(kind) == {i \in DOMAIN frame.events : frame.events[i].kind = kind}

\* C21: every call to the transcript provider is preceded by its own
\* rate-limit delay drawn from the configured range, the first call of a job
\* attempt and the call of every fetch-level retry alike: the event before a
\* request is a sleep of rate_limit_delay.
C21_DelayBeforeEveryCall ==
    frame.op = "get_transcript_with_rate_limit" =>
       \A i \in EventsOfKind("request") :
          /\ i > 1
          /\ frame.events[i - 1].kind = "delay"
          /\ frame.events[i - 1].time \in RateLimitDelays

\* ---------------------------------------------------------------- C22
\* C22: when a call to the transcript provider fails with an error, the fetch
\* is retried inside the same job attempt: get_transcript_with_rate_limit
\* returns the empty transcript (which sends the job to the failure handler)
\* after a failed request only when the fetch_max_retries attempts are used
\* up, with the backoffs of 1 s and 2 s +-20% between them.
C22_FetchRetried ==
    ( /\ frame.op = "get_transcript_with_rate_limit"
      /\ frame.pc = "returned" /\ frame.result = ""
      /\ \E i \in EventsOfKind("request") : frame.events[i].outcome = "error" )
    => /\ Cardinality(EventsOfKind("backoff")) = fetch_max_retries - 1
       /\ \A i \in EventsOfKind("backoff") :
             LET n == Cardinality({k \in EventsOfKind("backoff") : k < i})
             IN /\ frame.events[i].time >= (2 ^ n) * 80
                /\ frame.events[i].time <= (2 ^ n) * 120

\* ---------------------------------------------------------------- C23
\* C23: on a failure that is not terminal the handler sleeps a backoff within
\* [0.8 * 2^r, 1.2 * 2^r] seconds, r the retry count after the increment, and
\* the job is pending again only after that sleep; a terminal failure sleeps
\* no backoff.
C23_BackoffRange ==
    frame.op = "_handle_job_failure" =>
       /\ frame.job.status \in {"processing", "pending", "failed"}
       /\ frame.job.status = "pending" =>
             /\ Len(frame.sleeps) = 1
             /\ frame.sleeps[1] >= (2 ^ frame.job.retry_count) * 80
             /\ frame.sleeps[1] <= (2 ^ frame.job.retry_count) * 120
             /\ ~Exhausted(frame.job.retry_count)
       /\ frame.job.status = "failed" =>
             /\ frame.sleeps = <<>>
             /\ Exhausted(frame.job.retry_count)
       /\ frame.sleeps # <<>> => ~Exhausted(frame.retry_count)

\* a second failure was followed by a sleep of 4.8 s and the job is pending
C23_Witness ==
    /\ frame.op = "_handle_job_failure"
    /\ frame.job.status = "pending" /\ frame.job.retry_count = 2
    /\ frame.sleeps = <<480>>

\* ---------------------------------------------------------------- C24
\* C24: a job attempt whose transcript fetch and embedding generation both
\* succeeded is never sent to the failure handler by a later step (a handoff
\* that raises): no task that holds an embedding is in _handle_job_failure.
C24_HandoffFailureContained ==
    \A t \in tasks :
       t.embedding # NoEmbedding => t.pc \notin {"fail_job", "fail_video", "backoff"}

\* ---------------------------------------------------------------- C25
\* C25: every job has 0 <= retry_count <= max_retries; a failed job has
\* retry_count = max_retries; a pending, processing or completed job has
\* retry_count < max_retries; and the retry_count of a job never decreases,
\* except when retry_failed_jobs resets a failed job to pending with 0.
C25_RetryCountBounds ==
    /\ [](\A j \in queue :
            /\ j.retry_count >= 0 /\ j.retry_count <= max_retries
            /\ j.status = "failed" => j.retry_count = max_retries
            /\ j.status \in {"pending", "processing", "completed"}
                  => j.retry_count < max_retries)
    /\ [][\A j \in queue : \A k \in queue' :
             k._id = j._id =>
                \/ k.retry_count >= j.retry_count
                \/ /\ j.status = "failed" /\ k.status = "pending"
                   /\ k.retry_count = 0 /\ modified_count' > 0]_vars

\* one job failed for good and another was completed at its last attempt
C25_Witness ==
    /\ \E j \in queue : j.status = "failed" /\ j.retry_count = max_retries
    /\ \E j \in queue : j.status = "completed" /\ j.retry_count = max_retries - 1

\* ---------------------------------------------------------------- C26
\* C26: every job that _claim_pending_jobs moved to processing is dispatched
\* in the same cycle, also when a store error interrupts the claim: when a
\* loop leaves the claim, each job it had claimed has a task.
C26_ClaimedAreDispatched ==
    [][\A l \in Loops :
          (loops[l].pc = "claim" /\ loops'[l].pc # "claim") =>
             \A i \in 1..Len(loops[l].claimed) :
                \E t \in tasks' : /\ t.loop = l
                                  /\ t.job._id = loops[l].claimed[i]._id]_vars

\* ---------------------------------------------------------------- C27
\* C27: the shutdown of the application lets the batch in flight drain:
\* after the worker task was cancelled, every job that is still in status
\* processing has a task that works on it (and brings it to completed,
\* pending or failed), so that none remains processing.
C27_ShutdownDrains ==
    loops[FirstLoop].pc = "cancelled" =>
       \A j \in queue : j.status = "processing" => HasTask(j._id)

\* SpecStart: start_worker calls (the startup of the application, then a
\* playlist import) and the claims of the polling loops they start, over a
\* store that already holds jobs as in SpecClaim.
StartInit ==
    /\ \E pend \in [ClaimIds -> BOOLEAN], prio \in [ClaimIds -> AnyPriority],
          created \in [ClaimIds -> 0..MaxTime] :
          /\ \A i, k \in ClaimIds : i <= k => created[i] <= created[k]
          /\ queue = {StoredJob(i, pend[i], prio[i], created[i]) : i \in ClaimIds}
    /\ videos = [v \in VideoIds |-> IF v \in Imported THEN NewVideo ELSE NoVideo]
    /\ now = MaxTime
    /\ next_id = NumClaimJobs + 1
    /\ is_running = FALSE
    /\ semaphore = max_concurrent
    /\ loops = [l \in Loops |-> [pc |-> "off", claimed |-> <<>>]]
    /\ tasks = {}
    /\ calls = [c \in Callers |-> IdleCall]
    /\ arq = {}
    /\ quizzes = {}
    /\ modified_count = 0
    /\ frame = NoFrame

StartNext ==
    \/ \E l \in Loops : StartWorker(l)
    \/ \E l \in Loops : ClaimStep(l)

SpecStart == StartInit /\ [][StartNext]_vars

\* ---------------------------------------------------------------- C28
\* C28: at most one polling loop is active per worker: a start_worker call on
\* a worker that is already running adds no second claim and dispatch loop,
\* so the number of jobs in status processing never exceeds max_concurrent.
C28_OneLoop ==
    Cardinality({j \in queue : j.status = "processing"}) <= max_concurrent

\* SpecLive: the worker left running (start_worker, never stop_worker or a
\* shutdown), add_to_queue requests, the polling loops and the job tasks;
\* no store error, no retry_failed_jobs. The event loop runs every task that
\* is ready and every awaited call returns: weak fairness of each polling
\* loop and of the task of each job.
LiveNext ==
    \/ \E l \in Loops : StartWorker(l)
    \/ \E l \in Loops : LoopStep(l)
    \/ \E t \in tasks : TaskStep(t)
    \/ \E v \in VideoIds, p \in Priorities : AddToQueueFind(Client, v, p)
    \/ AddToQueueInsert(Client)
    \/ AddToQueueReturn(Client)

SpecLive ==
    /\ Init /\ [][LiveNext]_vars
    /\ \A l \in Loops : WF_vars(LoopStep(l))
    /\ \A id \in 1..MaxJobs :
          WF_vars(\E t \in tasks : t.job._id = id /\ TaskStep(t))

\* ---------------------------------------------------------------- C29
\* C29: with a running worker, finitely many enqueued jobs, no store error,
\* every external call returning and no retry_failed_jobs call, every job
\* eventually is completed or failed: none stays pending or processing.
C29_EveryJobEnds ==
    \A id \in 1..MaxJobs :
       (is_running /\ JobStatus(id) \in {"pending", "processing"})
          ~> (JobStatus(id) \in {"completed", "failed"})

\* the worker runs, one job was completed after a retry and another failed
\* for good
C29_Witness ==
    /\ is_running
    /\ \E j \in queue : j.status = "completed" /\ j.retry_count > 0
    /\ \E j \in queue : j.status = "failed"

\* SpecPool: concurrent enqueue_quiz_job calls and close_redis_pool.
PoolInit ==
    /\ Quiet
    /\ frame = [op |-> "enqueue_quiz_job", redis_pool |-> NoPool,
                created |-> 0, open |-> {},
                callers |-> [c \in PoolCallers |-> IdlePoolCaller]]

PoolNext ==
    \/ \E c \in PoolCallers : GetRedisPool(c)
    \/ \E c \in PoolCallers : CreatePool(c)
    \/ \E c \in PoolCallers : EnqueueJob(c)
    \/ CloseRedisPool

SpecPool == PoolInit /\ [][PoolNext]_vars

\* ---------------------------------------------------------------- C30
\* C30: across every interleaving of concurrent enqueue_quiz_job calls at
\* most one Redis pool is created between two close_redis_pool calls, and
\* every caller uses that same pool.
C30_OnePool ==
    frame.op = "enqueue_quiz_job" =>
       /\ Cardinality(frame.open) <= 1
       /\ \A c \in PoolCallers :
             frame.callers[c].pc \in {"enqueue_job", "returned"}
                => frame.callers[c].pool = frame.redis_pool

====
